---- MODULE Spec2Model ----
(***************************************************************************)
(* A model of src/app.py: the cached CSV loader load_data and the script   *)
(* run (one render pass) that filters the loaded table and draws the page. *)
(*                                                                         *)
(* Text is written in ASCII.  A region name is a sequence of syllables:    *)
(*   <<"gye">> is the total marker, <<"jeon","guk">> the nationwide label, *)
(*   <<"seo","ul">> a region, <<"so","gye">> a region whose name contains  *)
(*   the marker as a substring.                                            *)
(* Column names: "region", "year", "active", "employed", "unemployed" are  *)
(* the five source columns of lines 34-41, "emp_rate" and "unemp_rate" the *)
(* two derived columns of lines 48-49.                                     *)
(* A count cell of the file is its text, a sequence of characters; <<>> is *)
(* an empty field.  A parsed count is Num(n) or NaN.                       *)
(* A year is a record [k, v]: k = "num" with v in tenths (20225 is         *)
(* 2022.5), k = "nan" a missing value, k = "str" non-numeric text, and     *)
(* after line 38 k = "label" with v the integer in front of the suffix.    *)
(* Rates are integers in hundredths of a percent (9500 is 95.00), computed *)
(* in exact arithmetic where the code uses binary floating point.          *)
(***************************************************************************)
EXTENDS Integers, Sequences, FiniteSets, TLC

VARIABLES file, cache, pass

vars == <<file, cache, pass>>

\* Largest number of data rows of a source file.
MaxRows == 2

-----------------------------------------------------------------------------
(* Names and constants of the script *)

encodings == <<"utf-8", "euc-kr", "cp949">>

required_cols == <<"active", "employed", "unemployed">>

SourceCols == {"region", "year", "active", "employed", "unemployed"}

chart_cols == {"year", "region", "emp_rate", "unemp_rate"}

Marker == <<"gye">>

Nationwide == <<"jeon", "guk">>

AllYears == [k |-> "all", v |-> 0]

NaN == [nan |-> TRUE, v |-> 0]

Num(n) == [nan |-> FALSE, v |-> n]

NoTable == [cols |-> {}, rows |-> <<>>]

SeqRange(s) == {s[i] : i \in 1..Len(s)}

-----------------------------------------------------------------------------
(* pd.read_csv under the encodings of line 17, tried in order *)

\* ReadLoop without the break of line 22: the last attempt that decodes wins.
RECURSIVE ReadLoopNoBreak(_, _, _)
ReadLoopNoBreak(f, i, tried) ==
    IF i > Len(encodings)
    THEN [st |-> "exhausted", tried |-> tried, enc |-> "none"]
    ELSE LET e == encodings[i]
             rest == ReadLoopNoBreak(f, i + 1, Append(tried, e))
         IN  IF ~f.exists
             THEN [st |-> "notfound", tried |-> Append(tried, e), enc |-> "none"]
             ELSE IF rest.st = "ok" THEN rest
             ELSE IF e \in f.decodes
                  THEN [st |-> "ok", tried |-> rest.tried, enc |-> e]
                  ELSE rest

\* The i-th and later attempts of the loop of lines 19-27.
RECURSIVE ReadLoop(_, _, _)
ReadLoop(f, i, tried) ==
    IF i > Len(encodings)
    THEN [st |-> "exhausted", tried |-> tried, enc |-> "none"]
    ELSE LET e == encodings[i]
         IN  IF ~f.exists
             THEN [st |-> "notfound", tried |-> Append(tried, e), enc |-> "none"]
             ELSE IF e \in f.decodes
                  THEN [st |-> "ok", tried |-> Append(tried, e), enc |-> e]
                  ELSE ReadLoop(f, i + 1, Append(tried, e))

\* The frame read_csv builds: the file's columns and rows under a RangeIndex.
read_csv(f) ==
    [cols |-> f.cols,
     rows |-> [i \in 1..Len(f.rows) |-> [idx |-> i - 1, cell |-> f.rows[i]]]]

-----------------------------------------------------------------------------
(* Column cleaning, lines 34-46 *)

SetCell(row, c, val) ==
    [row EXCEPT !.cell = [d \in DOMAIN row.cell |-> IF d = c THEN val ELSE row.cell[d]]]

\* df[c]
Column(df, c) == [i \in 1..Len(df.rows) |-> df.rows[i].cell[c]]

\* df[c] = vals
SetColumn(df, c, vals) ==
    [df EXCEPT !.rows = [i \in 1..Len(df.rows) |-> SetCell(df.rows[i], c, vals[i])]]

\* ReplaceRegion as a substring replacement (Series.str.replace).
RECURSIVE ReplaceRegionSubstring(_)
ReplaceRegionSubstring(r) ==
    IF r = <<>> THEN <<>>
    ELSE (IF <<Head(r)>> = Marker THEN Nationwide ELSE <<Head(r)>>)
            \o ReplaceRegionSubstring(Tail(r))

\* Series.replace(Marker, Nationwide): whole values, compared by equality.
ReplaceRegion(r) == IF r = Marker THEN Nationwide ELSE r

\* astype(int) of the year column raises on text and on a missing value.
AstypeIntRaises(col) ==
    \E i \in 1..Len(col) : col[i].k \in {"str", "nan"}

\* astype(int) of a number drops the fraction; astype(str) + suffix labels it.
YearLabel(y) == [k |-> "label", v |-> y.v \div 10]

IsDigit(ch) == ch \in {"0", "1", "2", "3", "4", "5", "6", "7", "8", "9"}

DigitVal(ch) ==
    CASE ch = "0" -> 0 [] ch = "1" -> 1 [] ch = "2" -> 2 [] ch = "3" -> 3
      [] ch = "4" -> 4 [] ch = "5" -> 5 [] ch = "6" -> 6 [] ch = "7" -> 7
      [] ch = "8" -> 8 [] ch = "9" -> 9

RECURSIVE ParseDigits(_)
ParseDigits(s) ==
    IF s = <<>> THEN 0
    ELSE 10 * ParseDigits(SubSeq(s, 1, Len(s) - 1)) + DigitVal(s[Len(s)])

Unsigned(s) == IF s # <<>> /\ s[1] = "-" THEN Tail(s) ELSE s

IsNumberText(s) ==
    /\ Unsigned(s) # <<>>
    /\ \A i \in 1..Len(Unsigned(s)) : IsDigit(Unsigned(s)[i])

\* read_csv gives a column the dtype object when some field is not a number.
IsObjectColumn(col) ==
    \E i \in 1..Len(col) : col[i] # <<>> /\ ~IsNumberText(col[i])

\* Series.str.replace(',', '', regex=False)
StripCommas(s) == SelectSeq(s, LAMBDA ch : ch # ",")

\* pd.to_numeric(errors='coerce')
to_numeric(s) ==
    IF IsNumberText(s)
    THEN Num(IF s[1] = "-" THEN 0 - ParseDigits(Tail(s)) ELSE ParseDigits(s))
    ELSE NaN

\* Lines 43-45 for one column.
CoerceColumn(df, c) ==
    LET col == Column(df, c)
        stripped == IF IsObjectColumn(col)
                    THEN [i \in 1..Len(col) |-> StripCommas(col[i])]
                    ELSE col
    IN  SetColumn(df, c, [i \in 1..Len(col) |-> to_numeric(stripped[i])])

\* The loop of lines 42-45 from its k-th column on; a missing column raises
\* KeyError and leaves the columns already converted as they are.
RECURSIVE CoerceLoop(_, _)
CoerceLoop(df, k) ==
    IF k > Len(required_cols) THEN [df |-> df, keyerror |-> FALSE]
    ELSE IF required_cols[k] \notin df.cols THEN [df |-> df, keyerror |-> TRUE]
    ELSE CoerceLoop(CoerceColumn(df, required_cols[k]), k + 1)

\* dropna with the subset cut down to the first required column.
dropnaFirstOnly(df) ==
    [df EXCEPT !.rows = SelectSeq(df.rows,
        LAMBDA row : ~row.cell[required_cols[1]].nan)]

\* df.dropna(subset=required_cols)
dropna(df) ==
    [df EXCEPT !.rows = SelectSeq(df.rows,
        LAMBDA row : \A k \in 1..Len(required_cols) : ~row.cell[required_cols[k]].nan)]

-----------------------------------------------------------------------------
(* Derived rates, lines 48-49 *)

\* Round2 cutting the digits after the second decimal instead of rounding.
Round2Truncate(n, d) == (100 * n) \div d

\* round(x, 2) of the quotient n / d (d > 0), in hundredths: the nearest
\* integer to 100 * n / d, a tie going to the even one.
Round2(n, d) ==
    LET q == (100 * n) \div d
        r == (100 * n) % d
    IN  IF 2 * r < d THEN q
        ELSE IF 2 * r > d THEN q + 1
        ELSE IF q % 2 = 0 THEN q ELSE q + 1

\* The lambda of line 48 with the round(2) that follows it.
EmploymentRate(row) ==
    IF row.cell["active"].v > 0
    THEN Round2(row.cell["employed"].v * 100, row.cell["active"].v)
    ELSE 0

\* The lambda of line 49 with the round(2) that follows it.
UnemploymentRate(row) ==
    IF row.cell["active"].v > 0
    THEN Round2(row.cell["unemployed"].v * 100, row.cell["active"].v)
    ELSE 0

\* df['emp_rate'] = ..., df['unemp_rate'] = ...
AddRates(df) ==
    [cols |-> df.cols \cup {"emp_rate", "unemp_rate"},
     rows |-> [i \in 1..Len(df.rows) |->
                 [idx |-> df.rows[i].idx,
                  cell |-> [c \in df.cols \cup {"emp_rate", "unemp_rate"} |->
                              IF c = "emp_rate" THEN EmploymentRate(df.rows[i])
                              ELSE IF c = "unemp_rate" THEN UnemploymentRate(df.rows[i])
                              ELSE df.rows[i].cell[c]]]]]

-----------------------------------------------------------------------------
(* load_data, lines 11-55 *)

\* Lines 34-35.
CleanRegion(df) ==
    IF "region" \in df.cols
    THEN SetColumn(df, "region",
                   [i \in 1..Len(df.rows) |-> ReplaceRegion(df.rows[i].cell["region"])])
    ELSE df

\* Line 37-38 raises (outside every try block).
YearRaises(df) == "year" \in df.cols /\ AstypeIntRaises(Column(df, "year"))

\* Lines 37-38 when they do not raise.
LabelYear(df) ==
    IF "year" \in df.cols
    THEN SetColumn(df, "year",
                   [i \in 1..Len(df.rows) |-> YearLabel(df.rows[i].cell["year"])])
    ELSE df

\* Lines 40-53.  On an empty frame df.apply(axis=1) returns, depending on
\* the pandas version, an empty Series (the rate columns are added) or an
\* empty frame whose assignment to one column raises (applyFails).
Derive(df, applyFails) ==
    LET co == CoerceLoop(df, 1)
        kept == dropna(co.df)
    IN  IF co.keyerror
        THEN [df |-> co.df, shown |-> {"warning_keyerror"}]
        ELSE IF kept.rows = <<>> /\ applyFails
        THEN [df |-> kept, shown |-> {"warning_exception"}]
        ELSE [df |-> AddRates(kept), shown |-> {}]

\* One uncached execution of load_data on file f.
\*   outcome: "table" (a frame is returned), "none" (None is returned after
\*   st.error), "raised" (an exception leaves load_data).
LoadData(f, applyFails) ==
    LET rd == ReadLoop(f, 1, <<>>)
        base == [outcome |-> "none", df |-> NoTable, shown |-> {},
                 tried |-> rd.tried, enc |-> rd.enc]
    IN  IF rd.st = "notfound"
        THEN [base EXCEPT !.shown = {"error_not_found"}]
        ELSE IF rd.st = "exhausted"
        THEN [base EXCEPT !.shown = {"error_encoding"}]
        ELSE LET df1 == CleanRegion(read_csv(f))
             IN  IF YearRaises(df1)
                 THEN [base EXCEPT !.outcome = "raised"]
                 ELSE LET d == Derive(LabelYear(df1), applyFails)
                      IN  [base EXCEPT !.outcome = "table", !.df = d.df,
                                       !.shown = d.shown]

-----------------------------------------------------------------------------
(* The script below load_data, lines 57-157 *)

\* Line 64 and 66: the options of the region multiselect.
region_options(df) ==
    IF "region" \in df.cols
    THEN {df.rows[i].cell["region"] : i \in 1..Len(df.rows)} \ {Nationwide}
    ELSE {}

\* Lines 78-79: the options of the year selectbox.
year_options(df) ==
    IF "year" \in df.cols
    THEN {AllYears} \cup {df.rows[i].cell["year"] : i \in 1..Len(df.rows)}
    ELSE {AllYears}

\* FilterRows without the year test of lines 91-92.
FilterRowsNoYear(df, selected_regions, selected_year_option) ==
    IF selected_regions # {}
    THEN SelectSeq(df.rows, LAMBDA row : row.cell["region"] \in selected_regions)
    ELSE df.rows

\* Lines 86-92: the rows of df_filtered.
FilterRows(df, selected_regions, selected_year_option) ==
    LET byRegion == IF selected_regions # {}
                    THEN SelectSeq(df.rows,
                             LAMBDA row : row.cell["region"] \in selected_regions)
                    ELSE df.rows
    IN  IF selected_year_option # AllYears
        THEN SelectSeq(byRegion, LAMBDA row : row.cell["year"] = selected_year_option)
        ELSE byRegion

\* Line 96 indexes the region column without testing for it.
SummaryRaises(df) == "region" \notin df.cols

\* Lines 96-110: the two charts of the nationwide summary.
SummaryShown(df) ==
    IF /\ \E i \in 1..Len(df.rows) : df.rows[i].cell["region"] = Nationwide
       /\ {"year", "emp_rate", "unemp_rate"} \subseteq df.cols
    THEN {"summary_emp_chart", "summary_unemp_chart"}
    ELSE {}

\* Lines 134-157: the two comparison charts, or the notice in their place.
ChartsShown(cols, rows) ==
    IF chart_cols \subseteq cols
    THEN IF rows # <<>>
         THEN {"emp_chart", "unemp_chart"}
         ELSE {"warning_no_data"}
    ELSE {"info_missing_columns"}

\* Lines 63-83: the notices of the sidebar.
SidebarShown(df) ==
    (IF "region" \in df.cols THEN {} ELSE {"sidebar_warning_region"})
      \cup (IF "year" \in df.cols THEN {} ELSE {"sidebar_warning_year"})

\* One run of the script on the result res of load_data, with the two
\* sidebar selections.  status: "exception" (load_data raised), "stopped"
\* (st.stop of line 60), "fault" (line 96 raised), "done".
RunScript(f, res, read, selected_regions, selected_year_option) ==
    LET df == res.df
        rows == FilterRows(df, selected_regions, selected_year_option)
        base == [status |-> "done", file |-> f, read |-> read, load |-> res,
                 selected_regions |-> selected_regions,
                 selected_year_option |-> selected_year_option,
                 df_filtered |-> <<>>, shown |-> res.shown]
    IN  IF res.outcome = "raised"
        THEN [base EXCEPT !.status = "exception", !.shown = {"exception"}]
        ELSE IF res.outcome = "none"
        THEN [base EXCEPT !.status = "stopped"]
        ELSE IF SummaryRaises(df)
        THEN [base EXCEPT !.status = "fault", !.df_filtered = rows,
                          !.shown = res.shown \cup SidebarShown(df) \cup {"exception"}]
        ELSE [base EXCEPT !.df_filtered = rows,
                          !.shown = res.shown \cup SidebarShown(df)
                                      \cup SummaryShown(df) \cup {"table_view"}
                                      \cup ChartsShown(df.cols, rows)]

-----------------------------------------------------------------------------
(* The source files considered *)

AllEncodings == {"utf-8", "euc-kr", "cp949"}

\* cp949 extends euc-kr: what decodes as euc-kr decodes as cp949.
DecodableSets == {D \in SUBSET AllEncodings : "euc-kr" \in D => "cp949" \in D}

Seoul == <<"seo", "ul">>

Sogye == <<"so", "gye">>

Year(n) == [k |-> "num", v |-> 10 * n]

\* The rows of the example of the specification's section 8.
SampleRows ==
    << [region |-> Seoul, year |-> Year(2022), active |-> <<"1", "0", "0", "0">>,
        employed |-> <<"9", "5", "0">>, unemployed |-> <<"5", "0">>],
       [region |-> Marker, year |-> Year(2022), active |-> <<"5", "0", "0", "0">>,
        employed |-> <<"4", "7", "0", "0">>, unemployed |-> <<"3", "0", "0">>] >>

\* Year cells: two integers, a fraction, a missing value, text.
YearCells ==
    {Year(2022), Year(2023), [k |-> "num", v |-> 20225],
     [k |-> "nan", v |-> 0], [k |-> "str", v |-> 0]}

RegionCells == {Marker, Seoul, Sogye}

\* Count cells: "0", "-5", "32", "1,000", "x"; "1", "3", ""; "50".
\* 1 / 32 and 3 / 32 are rounding ties: 3.125 rounds down, 9.375 rounds up.
ActiveCells == {<<"0">>, <<"-", "5">>, <<"3", "2">>, <<"1", ",", "0", "0", "0">>, <<"x">>}

EmployedCells == {<<"1">>, <<"3">>, <<>>}

UnemployedCells == {<<"5", "0">>}

\* Rows that vary the year, the region and year, and the three counts.
YearRows ==
    [region : {Seoul}, year : YearCells, active : {<<"1", ",", "0", "0", "0">>},
     employed : {<<"9", "5", "0">>}, unemployed : {<<"5", "0">>}]

ViewRows ==
    [region : RegionCells, year : {Year(2022), Year(2023)},
     active : {<<"1", ",", "0", "0", "0">>},
     employed : {<<"9", "5", "0">>}, unemployed : {<<"5", "0">>}]

CountRows ==
    [region : {Seoul}, year : {Year(2022)}, active : ActiveCells,
     employed : EmployedCells, unemployed : UnemployedCells]

\* The file has all five columns or lacks one of them.
ColumnSets == {SourceCols} \cup {SourceCols \ {c} : c \in SourceCols}

\* The file has all five columns or lacks one of the count columns.
CountColumnSets == {SourceCols} \cup {SourceCols \ {c} : c \in SeqRange(required_cols)}

RowSeqs(S) == UNION {[1..n -> S] : n \in 0..MaxRows}

MakeFile(decodes, cols, rows) ==
    [exists |-> TRUE, decodes |-> decodes, cols |-> cols,
     rows |-> [i \in 1..Len(rows) |-> [c \in cols |-> rows[i][c]]]]

MissingFile == [exists |-> FALSE, decodes |-> {}, cols |-> {}, rows |-> <<>>]

SampleFile == MakeFile(AllEncodings, SourceCols, SampleRows)

Files ==
    {MissingFile}
      \cup {MakeFile(D, SourceCols, SampleRows) : D \in DecodableSets}
      \cup {MakeFile(AllEncodings, SourceCols, rs) : rs \in RowSeqs(YearRows)}
      \cup {MakeFile(AllEncodings, cs, rs) : cs \in ColumnSets, rs \in RowSeqs(ViewRows)}
      \cup {MakeFile(AllEncodings, cs, rs) : cs \in CountColumnSets, rs \in RowSeqs(CountRows)}

-----------------------------------------------------------------------------
(* The state machine *)

NoLoad == [outcome |-> "none", df |-> NoTable, shown |-> {}, tried |-> <<>>,
           enc |-> "none"]

NoPass == [status |-> "none", file |-> MissingFile, read |-> FALSE, load |-> NoLoad,
           selected_regions |-> {}, selected_year_option |-> AllYears,
           df_filtered |-> <<>>, shown |-> {}]

Init ==
    /\ file \in Files
    /\ cache = [full |-> FALSE, res |-> NoLoad]
    /\ pass = NoPass

\* st.cache_data on a function without arguments (line 10): the first call
\* that returns stores its result and the elements it showed; every later
\* call returns the stored result.  A call that raises stores nothing.
CachedLoad(applyFails) ==
    IF cache.full THEN cache.res ELSE LoadData(file, applyFails)

\* One run of the script (a page load or a widget interaction).
RenderPass ==
    \E applyFails \in BOOLEAN :
        LET res == CachedLoad(applyFails)
        IN  \E R \in SUBSET region_options(res.df), Y \in year_options(res.df) :
                /\ pass' = RunScript(file, res, ~cache.full, R, Y)
                /\ cache' = IF ~cache.full /\ res.outcome # "raised"
                            THEN [full |-> TRUE, res |-> res]
                            ELSE cache
                /\ UNCHANGED file

\* The environment changes the file at csv_path (line 14): it removes the
\* file, or writes the sample content to it.
RemoveFile ==
    /\ file.exists
    /\ file' = MissingFile
    /\ UNCHANGED <<cache, pass>>

WriteSample ==
    /\ file # SampleFile
    /\ file' = SampleFile
    /\ UNCHANGED <<cache, pass>>

Next == RenderPass \/ RemoveFile \/ WriteSample

Spec == Init /\ [][Next]_vars

-----------------------------------------------------------------------------
(* Vocabulary of the properties *)

\* The last pass executed load_data on pass.file (it was not a cache hit).
Loaded == pass.status # "none" /\ pass.read

\* The last pass got a frame from load_data, read or cached.
HasTable == pass.status # "none" /\ pass.load.outcome = "table"

\* The row of the file that row r of a frame read from file f comes from.
SourceRow(f, r) == f.rows[r.idx + 1]

\* The required columns that lines 43-45 converted before the loop ended.
Coerced(df) ==
    {required_cols[k] : k \in {j \in 1..Len(required_cols) :
                                  \A m \in 1..j : required_cols[m] \in df.cols}}

\* A count field that is no number once its commas are removed.
Unparseable(s) == ~IsNumberText(SelectSeq(s, LAMBDA ch : ch # ","))

Abs(x) == IF x < 0 THEN 0 - x ELSE x

\* h hundredths is the quotient 100 * x / a (a > 0) rounded to two decimals:
\* no other multiple of 0.01 is nearer, and of two equally near the even one.
IsRounded(h, x, a) ==
    /\ 2 * Abs(10000 * x - h * a) <= a
    /\ 2 * Abs(10000 * x - h * a) = a => h % 2 = 0

\* The file decodes under some encoding and has a year that is no integer.
HasNonIntegerYear(f) ==
    /\ f.exists /\ f.decodes # {} /\ "year" \in f.cols
    /\ \E i \in 1..Len(f.rows) :
           f.rows[i]["year"].k # "num" \/ f.rows[i]["year"].v % 10 # 0

Warnings ==
    {"warning_no_data", "warning_keyerror", "warning_exception",
     "sidebar_warning_region", "sidebar_warning_year"}

-----------------------------------------------------------------------------
(* The claims *)

\* C1: whatever the state of the source file, load_data returns a cleaned
\* table or reports a failure and returns no table; no exception leaves it.
C1_NeverRaises ==
    Loaded =>
        \/ pass.load.outcome = "table"
        \/ /\ pass.load.outcome = "none"
           /\ pass.load.df = NoTable
           /\ pass.load.shown \cap {"error_not_found", "error_encoding"} # {}

\* C2: in every table returned by load_data that has the three count
\* columns, each row's employment (unemployment) rate is employed
\* (unemployed) / active * 100 rounded to two decimals when active > 0, and
\* both rates are 0 when active <= 0; a table with rows has both rates.
C2_Rates ==
    (HasTable /\ SeqRange(required_cols) \subseteq pass.load.df.cols) =>
        LET df == pass.load.df
        IN  /\ df.rows # <<>> => {"emp_rate", "unemp_rate"} \subseteq df.cols
            /\ \A i \in 1..Len(df.rows) :
                   LET c == df.rows[i].cell
                   IN  IF c["active"].v > 0
                       THEN /\ IsRounded(c["emp_rate"], c["employed"].v, c["active"].v)
                            /\ IsRounded(c["unemp_rate"], c["unemployed"].v, c["active"].v)
                       ELSE c["emp_rate"] = 0 /\ c["unemp_rate"] = 0

\* C2 witness: a table with rates holding a row with active <= 0 and a row
\* whose employment rate is a rounding tie (1 / 32 * 100 = 3.125).
C2_Witness ==
    /\ HasTable
    /\ "emp_rate" \in pass.load.df.cols
    /\ \E i, j \in 1..Len(pass.load.df.rows) :
          /\ pass.load.df.rows[i].cell["active"].v <= 0
          /\ pass.load.df.rows[j].cell["active"].v = 32
          /\ pass.load.df.rows[j].cell["employed"].v = 1

C4_Original ==
    pass.status \in {"done", "fault"} =>
        pass.df_filtered =
            SelectSeq(pass.load.df.rows,
                LAMBDA row :
                    /\ "region" \in pass.load.df.cols
                    /\ row.cell["region"] \in pass.selected_regions
                    /\ \/ pass.selected_year_option = AllYears
                       \/ row.cell["year"] = pass.selected_year_option)

\* C4 amended: for a non-empty region selection R and a year option Y the
\* filtered table is exactly the loaded rows with region in R and year equal
\* to Y (region in R alone for the all-years option); for the empty
\* selection no region test is applied, and the filtered table is exactly
\* the loaded rows with year equal to Y (all loaded rows for all years).
C4_Filter ==
    pass.status \in {"done", "fault"} =>
        LET R == pass.selected_regions
            Y == pass.selected_year_option
            rows == pass.load.df.rows
            keep == {i \in 1..Len(rows) :
                        /\ R = {} \/ rows[i].cell["region"] \in R
                        /\ Y = AllYears \/ rows[i].cell["year"] = Y}
        IN  /\ R \subseteq region_options(pass.load.df)
            /\ Y \in year_options(pass.load.df)
            /\ Len(pass.df_filtered) = Cardinality(keep)
            /\ \A i \in keep :
                   pass.df_filtered[Cardinality({j \in keep : j <= i})] = rows[i]

\* C4 witness: a pass with a non-empty region selection and a year selected
\* whose filter keeps some rows of the table and removes others.
C4_Witness ==
    /\ pass.status = "done"
    /\ pass.selected_regions # {}
    /\ pass.selected_year_option # AllYears
    /\ pass.df_filtered # <<>>
    /\ Len(pass.df_filtered) < Len(pass.load.df.rows)

\* C5: load_data tries utf-8, euc-kr, cp949 in that order, uses the first
\* attempt that raises no decode error and makes no attempt after it; when
\* all three fail to decode, or the file does not exist, it reports a load
\* failure and returns no table.
C5_EncodingOrder ==
    Loaded =>
        LET f == pass.file
            l == pass.load
            n == Len(l.tried)
            failed == l.outcome = "none" /\ l.df = NoTable
        IN  /\ n \in 1..Len(encodings)
            /\ l.tried = SubSeq(encodings, 1, n)
            /\ ~f.exists => failed /\ l.shown = {"error_not_found"}
            /\ (f.exists /\ f.decodes = {}) =>
                   failed /\ n = Len(encodings) /\ l.shown = {"error_encoding"}
            /\ (f.exists /\ f.decodes # {}) =>
                   /\ l.outcome # "none"
                   /\ l.enc = l.tried[n]
                   /\ l.enc \in f.decodes
                   /\ \A i \in 1..(n - 1) : l.tried[i] \notin f.decodes

\* C5 witness: a load whose first two attempts fail to decode and whose
\* third, cp949, gives the table.
C5_Witness ==
    /\ Loaded
    /\ pass.load.outcome = "table"
    /\ pass.load.tried = encodings
    /\ pass.load.enc = "cp949"

\* C6: in every table returned by load_data that has a region column no
\* region equals the total marker: a region equal to the marker has become
\* the nationwide label, every other region is as in the file, and
\* rewriting the table a second time changes nothing.
C6_RegionRewrite ==
    (Loaded /\ pass.load.outcome = "table" /\ "region" \in pass.load.df.cols) =>
        LET df == pass.load.df
        IN  /\ \A i \in 1..Len(df.rows) :
                   LET src == SourceRow(pass.file, df.rows[i])["region"]
                       out == df.rows[i].cell["region"]
                   IN  /\ out # Marker
                       /\ src = Marker => out = Nationwide
                       /\ src # Marker => out = src
            /\ CleanRegion(df) = df

\* C6 witness: a returned table with a row whose region was the marker and
\* a row whose region contains the marker without being equal to it.
C6_Witness ==
    /\ Loaded
    /\ pass.load.outcome = "table"
    /\ "region" \in pass.load.df.cols
    /\ \E i, j \in 1..Len(pass.load.df.rows) :
          /\ SourceRow(pass.file, pass.load.df.rows[i])["region"] = Marker
          /\ SourceRow(pass.file, pass.load.df.rows[j])["region"] = Sogye

\* C7: when the year column holds a value that is no integer (a fraction,
\* a missing value, text), load_data returns no table: it never labels a
\* year with a truncated or otherwise altered value.
C7_YearFailsClosed ==
    (Loaded /\ HasNonIntegerYear(pass.file)) => pass.load.outcome # "table"

\* C8: when the loaded table lacks an expected column, the pass shows a
\* notice, skips only what depends on the column and runs to completion,
\* the table view included; it never aborts with a fault.
C8_MissingColumnDegrades ==
    (HasTable /\ ~(SourceCols \subseteq pass.load.df.cols)) =>
        /\ pass.status = "done"
        /\ "table_view" \in pass.shown
        /\ pass.shown \cap (Warnings \cup {"info_missing_columns"}) # {}

\* C9: a pass that follows a change of the file uses a table computed from
\* the new content: the result a pass works on is the result of load_data
\* on the file as it is during that pass, never a stale one.
C9_NeverStale ==
    pass.status # "none" =>
        \E applyFails \in BOOLEAN : pass.load = LoadData(pass.file, applyFails)

\* C10: whenever the filters select zero rows of a loaded table, the pass
\* shows a warning, renders no comparison chart and still renders the
\* (empty) table view.
C10_EmptyResult ==
    (HasTable /\ pass.df_filtered = <<>>) =>
        /\ pass.shown \cap Warnings # {}
        /\ pass.shown \cap {"emp_chart", "unemp_chart"} = {}
        /\ "table_view" \in pass.shown

=============================================================================
